---------------------------- MODULE Spec2Model ----------------------------
(***************************************************************************)
(* Model of pyobs-sbig's camera control adapter, the Cython class SBIGCam  *)
(* of pytel_sbig/sbigudrv.pyx, over the vendor class CSBIGCam it wraps.    *)
(*                                                                         *)
(* One caller drives one handle.  Every property and method of SBIGCam is  *)
(* one action taken from pc = "idle", except expose, which is one action   *)
(* per native call it makes (its wait loop may run forever).  The native   *)
(* layer is the environment: each status-returning call returns any status *)
(* of Status, 0 meaning no error.  What the native object stores (readout  *)
(* mode, sub-frame, exposure time, cooling registers, exposure in flight)  *)
(* is not code of pytel_sbig/sbigudrv.pyx; it is modelled from the         *)
(* declarations at the end of that file and from the specification.        *)
(*                                                                         *)
(* Python values are encoded with uniform types: an argument or a return   *)
(* value is a tuple of integers (a bool is 1 or 0), an error message is a  *)
(* record [kind, code].                                                    *)
(***************************************************************************)
EXTENDS Integers, Sequences, FiniteSets

(***************************************************************************)
(* Bounds of the model.                                                    *)
(***************************************************************************)
\* native status codes are 0..MaxStatus; 0 is "no error"
MaxStatus == 2
\* a responsive device reports completion after at most MaxPolls earlier polls
MaxPolls == 2
\* readout modes given to the readout_mode setter are -1..MaxMode,
\* binning factors given to the binning setter are -1..MaxMode+1
MaxMode == 3
\* cooling setpoints given to set_cooling are -MaxSetpoint..0
MaxSetpoint == 3

(***************************************************************************)
(* Constants of the program and of the device.                             *)
(***************************************************************************)
\* largest value of the C type unsigned short (parameter of SetReadoutMode)
UShortMax == 65535
\* full frame of the simulated sensor, as GetFullFrame reports it
FullWidth == 2
FullHeight == 1
\* temperature units spanned by one count of the device's setpoint register
ADStep == 2

Status == 0..MaxStatus
\* -1 stands for a device that never reports completion
Hung == -1
\* continuing polls are recorded up to PollCap; later ones repeat the last
PollCap == MaxPolls + 2

RawModes == -1..MaxMode
Binnings == [x : -1..(MaxMode + 1), y : -1..(MaxMode + 1)]
Windows == [left : 0..(FullWidth - 1), top : 0..(FullHeight - 1),
            width : 1..FullWidth, height : 1..FullHeight]
ExposureTimes == {1, 5}
Setpoints == (0 - MaxSetpoint)..0
Temps == {-10, 20}
Powers == {0, 100}

VARIABLES
    pc,             \* where the caller is: "idle", or the next step of expose
    readoutMode,    \* CSBIGCam's readout mode
    subFrame,       \* CSBIGCam's sub-frame [left, top, width, height]
    exposureTime,   \* CSBIGCam's exposure time
    coolEnabled,    \* device: temperature regulation on (1) or off (0)
    coolSetpointAD, \* device: setpoint register, in A/D counts
    inFlight,       \* device: an exposure has been started and not ended
    remaining,      \* device: polls that will still answer "not complete"
    fault,          \* device: status of the poll after those; 0 is "complete"
    complete,       \* expose's local variable `complete`
    calls,          \* native calls made by the current or last operation
    result          \* outcome of the current or last operation

vars == <<pc, readoutMode, subFrame, exposureTime, coolEnabled, coolSetpointAD,
          inFlight, remaining, fault, complete, calls, result>>

config == <<readoutMode, subFrame, exposureTime>>
cooling == <<coolEnabled, coolSetpointAD>>
device == <<inFlight, remaining, fault, complete>>

(***************************************************************************)
(* Encodings.                                                              *)
(***************************************************************************)
NoMsg == [kind |-> "", code |-> 0]
BinningMsg == [kind |-> "Only 1x1, 2x2, and 3x3 binnings supported.", code |-> 0]
UnknownModeMsg == [kind |-> "Unknown readout mode.", code |-> 0]
ConversionMsg == [kind |-> "can't convert negative value to unsigned short", code |-> 0]

\* CSBIGCam::GetErrorString(err): the vendor's message for status err
GetErrorString(err) == [kind |-> "vendor error string", code |-> err]

Bool2Int(b) == IF b THEN 1 ELSE 0

\* a status-returning native call and what it returned
Call(name, res, done) == [call |-> name, status |-> TRUE, res |-> res, complete |-> done]
\* a native call that returns no status
VoidCall(name) == [call |-> name, status |-> FALSE, res |-> 0, complete |-> FALSE]

Returned(op, arg, value) ==
    [op |-> op, arg |-> arg, status |-> "ok", value |-> value, msg |-> NoMsg]
Raised(op, arg, exc, msg) ==
    [op |-> op, arg |-> arg, status |-> exc, value |-> <<>>, msg |-> msg]
Running(op, arg) ==
    [op |-> op, arg |-> arg, status |-> "running", value |-> <<>>, msg |-> NoMsg]

\* `if res != 0: raise ValueError(self.obj.GetErrorString(res))`, else return value
CheckStatus(op, arg, res, value) ==
    IF res # 0 THEN Raised(op, arg, "ValueError", GetErrorString(res))
    ELSE Returned(op, arg, value)

Init ==
    /\ pc = "idle"
    /\ readoutMode = 0
    /\ subFrame = [left |-> 0, top |-> 0, width |-> 0, height |-> 0]
    /\ exposureTime = 1
    /\ coolEnabled = 0
    /\ coolSetpointAD = 0
    /\ inFlight = FALSE
    /\ remaining = 0
    /\ fault = 0
    /\ complete = FALSE
    /\ calls = <<>>
    /\ result = Returned("__cinit__", <<>>, <<>>)

(***************************************************************************)
(* establish_link, full_frame, temperature, readout.                       *)
(***************************************************************************)
establish_link ==
    /\ pc = "idle"
    /\ \E res \in Status :
         /\ calls' = <<Call("EstablishLink", res, FALSE)>>
         /\ result' = CheckStatus("establish_link", <<>>, res, <<>>)
    /\ UNCHANGED <<pc, config, cooling, device>>

full_frame ==
    /\ pc = "idle"
    /\ \E res \in Status :
         /\ calls' = <<Call("GetFullFrame", res, FALSE)>>
         /\ result' = CheckStatus("full_frame", <<>>, res, <<FullWidth, FullHeight>>)
    /\ UNCHANGED <<pc, config, cooling, device>>

temperature ==
    /\ pc = "idle"
    /\ \E res \in Status, temp \in Temps :
         /\ calls' = <<Call("GetCCDTemperature", res, FALSE)>>
         /\ result' = CheckStatus("temperature", <<>>, res, <<temp>>)
    /\ UNCHANGED <<pc, config, cooling, device>>

readout ==
    /\ pc = "idle"
    /\ \E shutter \in BOOLEAN, res \in Status :
         /\ calls' = <<Call("Readout", res, FALSE)>>
         /\ result' = CheckStatus("readout", <<Bool2Int(shutter)>>, res, <<>>)
    /\ UNCHANGED <<pc, config, cooling, device>>

(***************************************************************************)
(* readout_mode and binning.                                               *)
(***************************************************************************)
\* Cython's conversion of a Python int to the C type unsigned short succeeds
FitsUnsignedShort(v) == v >= 0 /\ v <= UShortMax

\* `self.obj.SetReadoutMode(rm)` made by operation op with argument arg: the
\* conversion of rm raises OverflowError before the native call is made
CallSetReadoutMode(op, arg, rm) ==
    IF FitsUnsignedShort(rm)
    THEN /\ calls' = <<VoidCall("SetReadoutMode")>>
         /\ readoutMode' = rm
         /\ result' = Returned(op, arg, <<>>)
    ELSE /\ calls' = <<>>
         /\ readoutMode' = readoutMode
         /\ result' = Raised(op, arg, "OverflowError", ConversionMsg)

get_readout_mode ==
    /\ pc = "idle"
    /\ calls' = <<VoidCall("GetReadoutMode")>>
    /\ result' = Returned("get_readout_mode", <<>>, <<readoutMode>>)
    /\ UNCHANGED <<pc, config, cooling, device>>

set_readout_mode ==
    /\ pc = "idle"
    /\ \E rm \in RawModes : CallSetReadoutMode("set_readout_mode", <<rm>>, rm)
    /\ UNCHANGED <<pc, subFrame, exposureTime, cooling, device>>

\* what the binning getter does with the mode GetReadoutMode returned
BinningOfMode(mode) ==
    IF mode \in {0, 1, 2}
    THEN Returned("get_binning", <<>>, <<mode + 1, mode + 1>>)
    ELSE Raised("get_binning", <<>>, "ValueError", UnknownModeMsg)

get_binning ==
    /\ pc = "idle"
    /\ calls' = <<VoidCall("GetReadoutMode")>>
    /\ result' = BinningOfMode(readoutMode)
    /\ UNCHANGED <<pc, config, cooling, device>>

\* the check of the binning setter with a wider upper limit
BinningRejected_Loose(binning) ==
    binning.x # binning.y \/ binning.x < 0 \/ binning.x > 4

\* the check of the binning setter
BinningRejected(binning) ==
    binning.x # binning.y \/ binning.x < 0 \/ binning.x > 2

set_binning ==
    /\ pc = "idle"
    /\ \E binning \in Binnings :
         IF BinningRejected(binning)
         THEN /\ calls' = <<>>
              /\ readoutMode' = readoutMode
              /\ result' = Raised("set_binning", <<binning.x, binning.y>>,
                                  "ValueError", BinningMsg)
         ELSE CallSetReadoutMode("set_binning", <<binning.x, binning.y>>,
                                 binning.x - 1)
    /\ UNCHANGED <<pc, subFrame, exposureTime, cooling, device>>

(***************************************************************************)
(* window and exposure_time.                                               *)
(***************************************************************************)
\* a window as a tuple (left, top, width, height)
WndTuple(wnd) == <<wnd.left, wnd.top, wnd.width, wnd.height>>

\* the window setter passing left and top in the wrong order
SetSubFrameArgs_Swapped(wnd) == <<wnd.top, wnd.left, wnd.width, wnd.height>>

\* the arguments (nLeft, nTop, nWidth, nHeight) the window setter passes
SetSubFrameArgs(wnd) == <<wnd.left, wnd.top, wnd.width, wnd.height>>

\* CSBIGCam::SetSubFrame(nLeft, nTop, nWidth, nHeight) stores its arguments
SetSubFrame(a) == [left |-> a[1], top |-> a[2], width |-> a[3], height |-> a[4]]

\* the dict the window getter builds from what GetSubFrame wrote
WindowDict(left, top, width, height) ==
    [left |-> left, top |-> top, width |-> width, height |-> height]

get_window ==
    /\ pc = "idle"
    /\ calls' = <<VoidCall("GetSubFrame")>>
    /\ result' = Returned("get_window", <<>>,
                          WndTuple(WindowDict(subFrame.left, subFrame.top,
                                              subFrame.width, subFrame.height)))
    /\ UNCHANGED <<pc, config, cooling, device>>

set_window ==
    /\ pc = "idle"
    /\ \E wnd \in Windows :
         /\ calls' = <<VoidCall("SetSubFrame")>>
         /\ subFrame' = SetSubFrame(SetSubFrameArgs(wnd))
         /\ result' = Returned("set_window", WndTuple(wnd), <<>>)
    /\ UNCHANGED <<pc, readoutMode, exposureTime, cooling, device>>

get_exposure_time ==
    /\ pc = "idle"
    /\ calls' = <<VoidCall("GetExposureTime")>>
    /\ result' = Returned("get_exposure_time", <<>>, <<exposureTime>>)
    /\ UNCHANGED <<pc, config, cooling, device>>

set_exposure_time ==
    /\ pc = "idle"
    /\ \E exp \in ExposureTimes :
         /\ calls' = <<VoidCall("SetExposureTime")>>
         /\ exposureTime' = exp
         /\ result' = Returned("set_exposure_time", <<exp>>, <<>>)
    /\ UNCHANGED <<pc, readoutMode, subFrame, cooling, device>>

(***************************************************************************)
(* Cooling.  The device keeps the setpoint in A/D counts of ADStep units,  *)
(* so a setpoint is read back to within the device's precision.            *)
(***************************************************************************)
\* CSBIGCam::DegreesCToAD: the nearest A/D count
DegreesCToAD(degC) == (2 * degC + ADStep) \div (2 * ADStep)
\* CSBIGCam::ADToDegreesC
ADToDegreesC(ad) == ad * ADStep

\* get_cooling returning temperature and setpoint in the wrong order
CoolingTuple_Swapped(enabled, temp, setpoint, power) ==
    <<Bool2Int(enabled = 1), setpoint, temp, power>>

\* the tuple get_cooling returns from what QueryTemperatureStatus wrote
CoolingTuple(enabled, temp, setpoint, power) ==
    <<Bool2Int(enabled = 1), temp, setpoint, power>>

set_cooling ==
    /\ pc = "idle"
    /\ \E enable \in BOOLEAN, setpoint \in Setpoints, res \in Status :
         /\ calls' = <<Call("SetTemperatureRegulation", res, FALSE)>>
         /\ coolEnabled' = IF res = 0 THEN Bool2Int(enable) ELSE coolEnabled
         /\ coolSetpointAD' = IF res = 0 THEN DegreesCToAD(setpoint) ELSE coolSetpointAD
         /\ result' = CheckStatus("set_cooling", <<Bool2Int(enable), setpoint>>, res, <<>>)
    /\ UNCHANGED <<pc, config, device>>

get_cooling ==
    /\ pc = "idle"
    /\ \E res \in Status, temp \in Temps, power \in Powers :
         /\ calls' = <<Call("QueryTemperatureStatus", res, FALSE)>>
         /\ result' = CheckStatus("get_cooling", <<>>, res,
                                  CoolingTuple(coolEnabled, temp,
                                               ADToDegreesC(coolSetpointAD), power))
    /\ UNCHANGED <<pc, config, cooling, device>>

(***************************************************************************)
(* expose: one action per native call.  The shutter argument only selects  *)
(* the frame mode given to GrabSetup and the shutter command given to      *)
(* StartExposure; the model does not tell the two apart.                   *)
(*                                                                         *)
(* The device: EndExposure returning 0 ends the exposure in flight,        *)
(* StartExposure returning 0 starts one.  A started exposure answers       *)
(* "not complete" to `remaining` polls and from then on either "complete"  *)
(* (fault = 0) or the error status `fault`, writing complete = FALSE; or   *)
(* it never answers anything but "not complete" (remaining = Hung).        *)
(***************************************************************************)
Last(seq) == seq[Len(seq)]

NPolls(seq) == Cardinality({i \in DOMAIN seq : seq[i].call = "IsExposureComplete"})

\* the answer (status, complete) of the device to the next poll
PollAnswer(r, f) ==
    IF r = Hung \/ r > 0 THEN [res |-> 0, complete |-> FALSE]
    ELSE [res |-> f, complete |-> (f = 0)]

\* `if res != 0: raise ...` after GrabSetup
GrabSetupFailed(res) == res # 0
\* the status of the EndExposure that ends a current exposure left unchecked
EndCurrentFailed_Ignored(res) == FALSE

\* `if res != 0: raise ...` after the EndExposure that ends a current exposure
EndCurrentFailed(res) == res # 0
\* the status of StartExposure left unchecked
StartExposureFailed_Ignored(res) == FALSE

\* `if res != 0: raise ...` after StartExposure
StartExposureFailed(res) == res # 0
\* a wait loop that breaks on error only
PollBreaks_IgnoresComplete(res, done) == res # 0
\* a wait loop that breaks on completion only
PollBreaks_IgnoresError(res, done) == done

\* `if res != 0 or complete: break` of the wait loop
PollBreaks(res, done) == res # 0 \/ done

expose_GrabSetup ==
    /\ pc = "idle"
    /\ complete' = FALSE
    /\ \E res \in Status :
         /\ calls' = <<Call("GrabSetup", res, FALSE)>>
         /\ IF GrabSetupFailed(res)
            THEN /\ result' = Raised("expose", <<>>, "ValueError", GetErrorString(res))
                 /\ pc' = "idle"
            ELSE /\ result' = Running("expose", <<>>)
                 /\ pc' = "EndCurrent"
    /\ UNCHANGED <<config, cooling, inFlight, remaining, fault>>

expose_EndCurrent ==
    /\ pc = "EndCurrent"
    /\ \E res \in Status :
         /\ calls' = Append(calls, Call("EndExposure", res, FALSE))
         /\ inFlight' = IF res = 0 THEN FALSE ELSE inFlight
         /\ IF EndCurrentFailed(res)
            THEN /\ result' = Raised("expose", <<>>, "ValueError", GetErrorString(res))
                 /\ pc' = "idle"
            ELSE /\ result' = result
                 /\ pc' = "StartExposure"
    /\ UNCHANGED <<config, cooling, remaining, fault, complete>>

expose_StartExposure ==
    /\ pc = "StartExposure"
    /\ \E res \in Status :
         /\ calls' = Append(calls, Call("StartExposure", res, FALSE))
         /\ IF StartExposureFailed(res)
            THEN /\ result' = Raised("expose", <<>>, "ValueError", GetErrorString(res))
                 /\ pc' = "idle"
                 /\ UNCHANGED <<inFlight, remaining, fault>>
            ELSE /\ result' = result
                 /\ pc' = "IsExposureComplete"
                 /\ inFlight' = TRUE
                 /\ \/ remaining' \in 0..MaxPolls /\ fault' \in Status
                    \/ remaining' = Hung /\ fault' = 0
    /\ UNCHANGED <<config, cooling, complete>>

expose_IsExposureComplete ==
    /\ pc = "IsExposureComplete"
    /\ LET ans == PollAnswer(remaining, fault) IN
         /\ complete' = ans.complete
         /\ remaining' = IF remaining > 0 THEN remaining - 1 ELSE remaining
         /\ calls' = IF ~PollBreaks(ans.res, ans.complete) /\ NPolls(calls) >= PollCap
                     THEN calls
                     ELSE Append(calls, Call("IsExposureComplete", ans.res, ans.complete))
         /\ pc' = IF PollBreaks(ans.res, ans.complete)
                  THEN "EndExposure" ELSE "IsExposureComplete"
    /\ UNCHANGED <<config, cooling, inFlight, fault, result>>

expose_EndExposure ==
    /\ pc = "EndExposure"
    /\ \E res \in Status :
         /\ calls' = Append(calls, Call("EndExposure", res, FALSE))
         /\ inFlight' = IF res = 0 THEN FALSE ELSE inFlight
         /\ result' = CheckStatus("expose", <<>>, res, <<>>)
    /\ remaining' = 0
    /\ fault' = 0
    /\ pc' = "idle"
    /\ UNCHANGED <<config, cooling, complete>>

\* the steps of an expose call that is under way
ExposeStep ==
    \/ expose_EndCurrent
    \/ expose_StartExposure
    \/ expose_IsExposureComplete
    \/ expose_EndExposure

\* the exposure sequence of a caller: exposure time, binning, window, expose
ExposeNext ==
    \/ set_exposure_time
    \/ set_binning
    \/ set_window
    \/ expose_GrabSetup
    \/ ExposeStep

Next ==
    \/ establish_link
    \/ full_frame
    \/ temperature
    \/ readout
    \/ get_readout_mode
    \/ set_readout_mode
    \/ get_binning
    \/ set_binning
    \/ get_window
    \/ set_window
    \/ get_exposure_time
    \/ set_exposure_time
    \/ set_cooling
    \/ get_cooling
    \/ expose_GrabSetup
    \/ ExposeStep

Spec == Init /\ [][Next]_vars

\* expose runs in the caller's thread: a call under way takes its next step
FairSpec == Init /\ [][ExposeNext]_vars /\ WF_vars(ExposeStep)

(***************************************************************************)
(* Properties.                                                             *)
(***************************************************************************)
IsPoll(c) == c.call = "IsExposureComplete"

\* the last operation was expose and it returned without raising
ExposeReturned == pc = "idle" /\ result.op = "expose" /\ result.status = "ok"

\* a native call is appended to the trace in this step
Issued(name) == Len(calls') = Len(calls) + 1 /\ Last(calls').call = name

\* C1: the binning setter rejects every binning with x # y or x not in
\* {1,2,3} with a ValueError, calls nothing native and leaves the readout
\* mode as it was.
C1_InvalidBinningRejected ==
    [][(result'.op = "set_binning"
        /\ (result'.arg[1] # result'.arg[2] \/ result'.arg[1] \notin {1, 2, 3}))
       => (result'.status = "ValueError" /\ calls' = <<>>
           /\ readoutMode' = readoutMode)]_vars

\* C2: for b in {1,2,3} the binning setter accepts {x: b, y: b}, sets the
\* readout mode to b - 1, and the binning getter then returns {x: b, y: b}.
C2_SquareBinningAccepted ==
    [][(result'.op = "set_binning"
        /\ result'.arg[1] = result'.arg[2] /\ result'.arg[1] \in {1, 2, 3})
       => (result'.status = "ok" /\ readoutMode' = result'.arg[1] - 1
           /\ BinningOfMode(readoutMode').status = "ok"
           /\ BinningOfMode(readoutMode').value = result'.arg)]_vars

\* C3: when an operation has ended, every status-returning native call it
\* made that returned a non-zero status made it raise an error carrying the
\* vendor error string of that status, with no result.
C3_NonZeroStatusRaises ==
    pc = "idle" =>
        \A i \in DOMAIN calls :
            (calls[i].status /\ calls[i].res # 0)
            => (result.status = "ValueError"
                /\ result.msg = GetErrorString(calls[i].res)
                /\ result.value = <<>>)

\* C4: an expose that returned issued GrabSetup, EndExposure, StartExposure,
\* one or more IsExposureComplete polls and EndExposure, in this order; and
\* in any expose, when the n-th poll is the first to report completion,
\* exactly n polls are issued, all between StartExposure and the final
\* EndExposure.
C4_ExposeCallOrder ==
    /\ ExposeReturned =>
         /\ Len(calls) >= 5
         /\ calls[1].call = "GrabSetup"
         /\ calls[2].call = "EndExposure"
         /\ calls[3].call = "StartExposure"
         /\ \A i \in 4..(Len(calls) - 1) : IsPoll(calls[i])
         /\ calls[Len(calls)].call = "EndExposure"
    /\ (result.op = "expose") =>
         \A k \in DOMAIN calls :
            (IsPoll(calls[k]) /\ calls[k].complete
             /\ \A j \in 1..(k - 1) : ~(IsPoll(calls[j]) /\ calls[j].complete))
            => /\ k > 3
               /\ calls[3].call = "StartExposure"
               /\ NPolls(calls) = k - 3
               /\ \A i \in 4..k : IsPoll(calls[i])
               /\ \A i \in (k + 1)..Len(calls) : i = k + 1 /\ calls[i].call = "EndExposure"

\* C4 witness: the specification's scenario, an expose that returned after
\* the device reported completion on the third poll.
C4_Witness ==
    /\ ExposeReturned
    /\ NPolls(calls) = 3
    /\ calls[6].complete /\ calls[6].res = 0
    /\ ~calls[4].complete /\ ~calls[5].complete

\* C5: expose has no timeout.  The wait loop is left only by a poll that
\* returned a non-zero status or reported completion; while the device
\* answers status 0 and "not complete" expose keeps polling; and once the
\* device is to report completion or an error, expose ends.
C5_NoTimeout ==
    /\ [][(pc = "IsExposureComplete" /\ pc' # "IsExposureComplete")
          => (Issued("IsExposureComplete")
              /\ (Last(calls').res # 0 \/ Last(calls').complete))]_vars
    /\ [][(pc = "IsExposureComplete" /\ remaining = Hung)
          => pc' = "IsExposureComplete"]_vars
    /\ ((pc = "IsExposureComplete" /\ remaining # Hung) ~> (pc = "idle"))

\* C5 witness: expose still polling a device that does not answer, after
\* more polls than any responsive device of the model needs.
C5_Witness ==
    /\ pc = "IsExposureComplete"
    /\ remaining = Hung
    /\ NPolls(calls) > MaxPolls + 1
    /\ \A i \in 4..Len(calls) : calls[i].res = 0 /\ ~calls[i].complete

\* the readout mode is one the binning getter maps to a square binning
ModeIsBinning(mode) ==
    /\ mode \in {0, 1, 2}
    /\ BinningOfMode(mode).status = "ok"
    /\ BinningOfMode(mode).value[1] = BinningOfMode(mode).value[2]
    /\ BinningOfMode(mode).value[1] \in {1, 2, 3}

\* C6 as stated: in every reachable state the readout mode is in {0,1,2}
\* and the binning getter yields equal x and y in {1,2,3}.
C6_ModeAlwaysBinning == ModeIsBinning(readoutMode)

\* C6 amended: the readout mode starts in {0,1,2} and every operation keeps
\* it there, except the readout_mode setter given a value outside {0,1,2}.
C6_ModeBinningUnlessRawModeSet ==
    /\ ModeIsBinning(readoutMode)
    /\ [][(ModeIsBinning(readoutMode)
           /\ ~(result'.op = "set_readout_mode" /\ result'.arg[1] \notin {0, 1, 2}))
          => ModeIsBinning(readoutMode')]_vars

\* C6 witness: the binning setter has set a mode and the getter maps it.
C6_Witness ==
    /\ result.op = "set_binning" /\ result.status = "ok"
    /\ result.arg = <<2, 2>>
    /\ readoutMode = 1
    /\ ModeIsBinning(readoutMode)

\* a window (left, top, width, height) inside the full frame
Contained(w) ==
    /\ w[1] >= 0 /\ w[2] >= 0 /\ w[3] >= 1 /\ w[4] >= 1
    /\ w[1] + w[3] <= FullWidth
    /\ w[2] + w[4] <= FullHeight

\* C7: reading SBIGCam.window right after setting it to a window inside the
\* full frame returns the same left, top, width and height.
C7_WindowRoundTrip ==
    [][(result.op = "set_window" /\ Contained(result.arg)
        /\ result'.op = "get_window")
       => result'.value = result.arg]_vars

\* C7 witness: the getter returned a window inside the full frame that only
\* the setter can have stored.
C7_Witness ==
    /\ result.op = "get_window"
    /\ result.value = <<1, 0, 1, 1>>
    /\ Contained(result.value)

\* a successful set_cooling is followed at once by a successful get_cooling
CoolingReadBack ==
    /\ result.op = "set_cooling" /\ result.status = "ok"
    /\ result'.op = "get_cooling" /\ result'.status = "ok"

Abs(n) == IF n < 0 THEN 0 - n ELSE n

\* C8 as stated: get_cooling right after a successful set_cooling(enable, s)
\* returns a 4-tuple whose enabled is enable and, when enabled, whose
\* setpoint equals s.
C8_CoolingReadBackExact ==
    [][CoolingReadBack
       => (/\ Len(result'.value) = 4
           /\ result'.value[1] = result.arg[1]
           /\ (result.arg[1] = 1 => result'.value[3] = result.arg[2]))]_vars

\* C8 amended: the setpoint read back equals s to within the precision of
\* the device's setpoint register.
C8_CoolingReadBackWithinPrecision ==
    [][CoolingReadBack
       => (/\ Len(result'.value) = 4
           /\ result'.value[1] = result.arg[1]
           /\ (result.arg[1] = 1 => Abs(result'.value[3] - result.arg[2]) < ADStep))]_vars

\* C8 witness: get_cooling returned enabled and a setpoint other than the
\* initial one.
C8_Witness ==
    /\ result.op = "get_cooling" /\ result.status = "ok"
    /\ result.value[1] = 1
    /\ result.value[3] = 0 - ADStep

\* C9: expose returns without raising only if one of its polls returned
\* status 0 and reported completion.
C9_ReturnsOnlyIfComplete ==
    ExposeReturned =>
        \E i \in DOMAIN calls :
            IsPoll(calls[i]) /\ calls[i].res = 0 /\ calls[i].complete

\* C10: StartExposure is issued only right after an EndExposure that
\* returned status 0, and never while an exposure is in flight.
C10_StartOnlyAfterEnd ==
    [][Issued("StartExposure")
       => (/\ Len(calls) >= 1
           /\ Last(calls).call = "EndExposure"
           /\ Last(calls).res = 0
           /\ ~inFlight)]_vars

\* C10 witness: StartExposure has been issued, right after the EndExposure
\* that returned status 0, and the exposure it started is in flight.
C10_Witness ==
    /\ pc = "IsExposureComplete"
    /\ Len(calls) = 3
    /\ calls[2].call = "EndExposure" /\ calls[2].res = 0
    /\ calls[3].call = "StartExposure" /\ calls[3].res = 0
    /\ inFlight

\* C11: expose stops at the first failing setup step.  A GrabSetup, a first
\* EndExposure or a StartExposure (the first three native calls of expose)
\* that returned a non-zero status is the last native call of that expose,
\* which has raised: no StartExposure follows a failed GrabSetup or
\* EndExposure, no poll and no final EndExposure follow a failed
\* StartExposure.
C11_StopsAtFirstFailedSetupStep ==
    (result.op = "expose") =>
        /\ \A i \in DOMAIN calls :
              (i <= 3 /\ calls[i].res # 0)
              => (/\ Len(calls) = i
                  /\ pc = "idle"
                  /\ result.status = "ValueError")
        /\ (Len(calls) >= 1 => calls[1].call = "GrabSetup")
        /\ (Len(calls) >= 2 => calls[2].call = "EndExposure")
        /\ (Len(calls) >= 3 => calls[3].call = "StartExposure")
        /\ \A i \in 4..Len(calls) : calls[i].call # "StartExposure"

\* C11 witness: an expose whose StartExposure returned a non-zero status has
\* raised after its third native call.
C11_Witness ==
    /\ pc = "idle"
    /\ result.op = "expose" /\ result.status = "ValueError"
    /\ Len(calls) = 3
    /\ calls[3].call = "StartExposure" /\ calls[3].res # 0
    /\ result.msg = GetErrorString(calls[3].res)

=============================================================================
